---- MODULE Spec2Model ----
(***************************************************************************)
(* Model of the face-alignment and capture-readiness pipeline of the       *)
(* Skinverse client app:                                                   *)
(*   - the capture state machine of ScanPage (src/src/pages/ScanPage.tsx,  *)
(*     first component of the file) together with the capture part of the  *)
(*     zustand store (src/src/store/useAppStore.ts);                       *)
(*   - the signal stabilizer of useMediaPipeFaceMesh.onMediaPipeResults;   *)
(*   - the frame loop of useMediaPipeFaceMesh (startProcessing,            *)
(*     processFrame, stopProcessing) driven by ProcessingEngine.           *)
(*                                                                         *)
(* React is modelled with atomic commits: a handler, the re-render it      *)
(* causes and the effects of that render form one step.  Timers            *)
(* (setTimeout), the awaited part of handleCapture and in-flight           *)
(* FaceMesh.send calls are separate steps; an awaited call may stay        *)
(* suspended for any length of time.                                       *)
(***************************************************************************)
EXTENDS Integers, Sequences, FiniteSets, TLC

\* ------------------------------------------------------------------ bounds
MaxStreak == 48        \* cap of stabilityCounterRef (unbounded in the code)
MaxBad == 5            \* cap of badFrameCounterRef (unbounded in the code)
MaxImages == 4         \* cap of the length of capturedImages
MaxPending == 2        \* cap of capture timers plus handleCapture calls in flight
MaxStageTimers == 1    \* cap of pending alignment->capture stage timers
MaxCallTicks == 6      \* cap of the ticks a handleCapture call stays suspended
MaxRun == 6            \* the observed runs of raw readings are counted up to this
MaxLoops == 3          \* cap of the processFrame chains alive at once
MaxPipelineStreak == 3 \* cap of the streak where ticks and frame results interleave
MaxNoseX == 1020       \* largest nose position tried, in thousandths of the width

\* ------------------------------------------------------- program constants
TICK_PERIOD_MS == 100  \* ScanPage.tsx:342, period of the stability interval
STABILITY_FRAMES == 45 \* ScanPage.tsx:320, streak needed to be ready
BAD_FRAME_BUFFER == 3  \* ScanPage.tsx:304, forgiven consecutive bad ticks
STREAK_ON == 5         \* useMediaPipeFaceMesh.ts:72
STREAK_OFF == 3        \* useMediaPipeFaceMesh.ts:73

capturePositions == <<"center", "left", "right">>
NumPositions == Len(capturePositions)
Steps == 0 .. (NumPositions - 1)
Angles == {capturePositions[i] : i \in 1 .. NumPositions}

Min(a, b) == IF a < b THEN a ELSE b
Max(a, b) == IF a > b THEN a ELSE b

VARIABLES
  \* zustand store
  capturedImages,      \* sequence of the positions of the stored images
  currentCaptureStep,
  appStatus,
  \* ScanPage React state
  scanStage, isReady, stableStatus, stabilityProgress, isScanComplete,
  \* ScanPage refs
  captureLockRef, stabilityCounterRef, badFrameCounterRef,
  \* ScanPage pending asynchronous work
  mounted,             \* FALSE once handleBack has navigated away
  stageTimers,         \* pending setTimeout(() => setScanStage('capture'), 500)
  captureTimers,       \* [step -> number of pending 100 ms capture timers whose
                       \*  closure was created in a render with that step]
  captureCalls,        \* [step -> the handleCapture calls suspended at their
                       \*  await, each as the number of ticks it has waited]
  \* history of the session, for the properties
  completeEvents,      \* number of setIsScanComplete(true) calls since the last reset
  undisturbed,         \* no Back, Restart, Retake or failed frame grab so far
  captureFailed,       \* the last step of the page was a capture that failed
  lastTick,            \* what the tick read, if the last step of the page was an
                       \* observed tick: <<isFaceDetected, isLightingGood,
                       \* isNoseAligned>>
  badTickRun,          \* the number of observed ticks since the last one that
                       \* read all three true (counted up to MaxRun)
  \* useMediaPipeFaceMesh: the signal stabilizer
  stabilityRef,        \* the hysteresis counters and stabilized booleans
  visionStatus,        \* statusRef.current as ProcessingEngine writes it from
                       \* the last analysisResult: whether it is set at all,
                       \* the three booleans, and whether it holds landmarks
  rawRuns,             \* history: lengths of the current runs of raw readings
  advancesSinceTick,   \* history: the frame results that went through the
                       \* smoothing since the last tick (counted up to 2)
  \* useMediaPipeFaceMesh and ProcessingEngine: the frame loop
  isInitialized,       \* status.isInitialized (faceMeshRef.current is set)
  statusIsProcessing,  \* status.isProcessing, the React state
  isProcessingRef,
  isEnabled,           \* ProcessingEngine's prop: isCameraReady && !isComplete
  cleanupStops,        \* the registered cleanup of the start/stop effect will
                       \* call stopProcessing (its closure saw isProcessing)
  autoStartTimer,      \* the hook's 500 ms auto-start timer is pending
  sendsInFlight,       \* FaceMesh.send calls that have not returned
  frameRequested,      \* animationFrameRef names a callback that is still pending
  orphanFrames,        \* pending processFrame callbacks animationFrameRef
                       \* no longer names
  videoReady,          \* the video element has a current frame (readyState >= 2
                       \* and non-zero videoWidth and videoHeight)
  statusError,         \* status.error is set (not null)
  \* history of the frame loop, for the properties
  stoppedSince,        \* stopProcessing has run and startProcessing has not
                       \* been called since
  activeWhileStopped,  \* a frame was submitted or an animation frame was
                       \* requested while stoppedSince
  haltedWhileStopped,  \* a returning send or a frame callback found the loop
                       \* stopped and did nothing, while stoppedSince
  criticalFailure,     \* a send threw a critical error and startProcessing
                       \* has not restarted the loop since
  \* visionUtils: the estimators
  estimatorCall,       \* the arguments of the last call of an estimator
  estimatorResult,     \* the value that call returned
  \* ScanPage: the target-zone test along a head turn
  noseTrack            \* the frame of a head turn last tested: its landmarks,
                       \* nose position, window width and required position,
                       \* the result of the test, and how often the result
                       \* has risen and fallen along the turn

pageVars == <<capturedImages, currentCaptureStep, appStatus, scanStage, isReady,
              stableStatus, stabilityProgress, isScanComplete, captureLockRef,
              stabilityCounterRef, badFrameCounterRef, mounted, stageTimers,
              captureTimers, captureCalls, completeEvents, undisturbed,
              captureFailed, lastTick, badTickRun>>

stabVars == <<stabilityRef, visionStatus, rawRuns, advancesSinceTick>>

loopVars == <<isInitialized, statusIsProcessing, isProcessingRef, isEnabled,
              cleanupStops, autoStartTimer, sendsInFlight, frameRequested,
              orphanFrames, videoReady, statusError, stoppedSince,
              activeWhileStopped, haltedWhileStopped, criticalFailure>>

estVars == <<estimatorCall, estimatorResult, noseTrack>>

vars == <<pageVars, stabVars, loopVars, estVars>>

\* ------------------------------------------------------- ScanPage as records
\* The handlers are sequential code; they are written as functions on a
\* record of the page state and applied by the actions below.
Page == [images |-> capturedImages, step |-> currentCaptureStep,
         appStatus |-> appStatus, stage |-> scanStage, isReady |-> isReady,
         stable |-> stableStatus, progress |-> stabilityProgress,
         complete |-> isScanComplete, lock |-> captureLockRef,
         counter |-> stabilityCounterRef, bad |-> badFrameCounterRef,
         mounted |-> mounted, stageTimers |-> stageTimers,
         timers |-> captureTimers, calls |-> captureCalls,
         completeEvents |-> completeEvents, undisturbed |-> undisturbed,
         failed |-> FALSE, tick |-> <<>>, run |-> badTickRun]

SetPage(r) ==
  /\ capturedImages' = r.images
  /\ currentCaptureStep' = r.step
  /\ appStatus' = r.appStatus
  /\ scanStage' = r.stage
  /\ isReady' = r.isReady
  /\ stableStatus' = r.stable
  /\ stabilityProgress' = r.progress
  /\ isScanComplete' = r.complete
  /\ captureLockRef' = r.lock
  /\ stabilityCounterRef' = r.counter
  /\ badFrameCounterRef' = r.bad
  /\ mounted' = r.mounted
  /\ stageTimers' = r.stageTimers
  /\ captureTimers' = r.timers
  /\ captureCalls' = r.calls
  /\ completeEvents' = r.completeEvents
  /\ undisturbed' = r.undisturbed
  /\ captureFailed' = r.failed
  /\ lastTick' = r.tick
  /\ badTickRun' = r.run

NoTimers == [s \in Steps |-> 0]

NoCalls == [s \in Steps |-> <<>>]

Pending(r) == r.timers[0] + r.timers[1] + r.timers[2]
              + Len(r.calls[0]) + Len(r.calls[1]) + Len(r.calls[2])

InBounds(r) ==
  /\ r.counter <= MaxStreak
  /\ r.bad <= MaxBad
  /\ Len(r.images) <= MaxImages
  /\ Pending(r) <= MaxPending
  /\ r.stageTimers <= MaxStageTimers
  /\ \A s \in Steps : \A i \in DOMAIN r.calls[s] : r.calls[s][i] <= MaxCallTicks

\* const isComplete = currentCaptureStep >= capturePositions.length
isComplete(r) == r.step >= NumPositions

\* const currentPosition = capturePositions[currentCaptureStep] || 'center'
currentPosition(step) ==
  IF step < NumPositions THEN capturePositions[step + 1] ELSE "center"

\* Math.round((counter / 45) * 100) for counter >= 0
ProgressOf(counter) == (counter * 200 + STABILITY_FRAMES) \div (2 * STABILITY_FRAMES)

\* The automatic capture effect: sets the lock and schedules the 100 ms
\* capture timer, whose closure holds the handleCapture of this render.
CaptureEffect(r) ==
  IF r.stable /\ ~r.lock /\ ~isComplete(r) /\ r.stage = "capture"
  THEN [r EXCEPT !.lock = TRUE, !.timers[r.step] = @ + 1]
  ELSE r

\* The effect on [currentCaptureStep]; its setStableStatus / setScanStage
\* cause one more render, in which the capture effect finds stable = FALSE.
StepChangeEffect(r) ==
  [r EXCEPT !.lock = FALSE, !.counter = 0, !.bad = 0, !.stable = FALSE,
            !.progress = 0,
            !.stage = IF r.step = 0 THEN "alignment" ELSE @]

\* The commit that follows a handler: old is the state of the previous
\* render, new the state the handler left.  Effects run in declaration
\* order, each only when one of its dependencies changed.
CaptureDepsChanged(old, new) ==
  \/ new.stable # old.stable
  \/ new.step # old.step
  \/ new.stage # old.stage
  \/ new.images # old.images      \* handleCapture <- processAnalysis <- capturedImages

Commit(old, new) ==
  IF ~new.mounted THEN new
  ELSE LET a == IF CaptureDepsChanged(old, new) THEN CaptureEffect(new) ELSE new
       IN IF new.step # old.step THEN StepChangeEffect(a) ELSE a

\* ---------------------------------------------------------------- the store
addCapturedImage(r, position) ==
  LET newImages == Append(r.images, position)
  IN [r EXCEPT !.images = newImages, !.step = Len(newImages)]

clearCapturedImages(r) == [r EXCEPT !.images = <<>>, !.step = 0]

setCurrentCaptureStep(r, step) == [r EXCEPT !.step = step]

\* ------------------------------------------------------- the stability tick
\* Body of the setInterval callback for a tick whose vision status gives
\* allConditionsMet = met.  (A tick with visionStatusRef.current = null
\* returns at once and is a stuttering step.)
\* Counters that drop the whole streak once the buffer is used up
TickCountersResetting(r, met) ==
  IF met
  THEN [r EXCEPT !.bad = 0, !.counter = @ + 1,
                 !.progress = Min(100, ProgressOf(r.counter + 1))]
  ELSE LET b == r.bad + 1
       IN IF b > BAD_FRAME_BUFFER /\ r.counter > 0
          THEN [r EXCEPT !.counter = 0, !.progress = 0, !.bad = 0]
          ELSE [r EXCEPT !.bad = b]

TickCounters(r, met) ==
  IF met
  THEN [r EXCEPT !.bad = 0, !.counter = @ + 1,
                 !.progress = Min(100, ProgressOf(r.counter + 1))]
  ELSE LET b == r.bad + 1
       IN IF b > BAD_FRAME_BUFFER /\ r.counter > 0
          THEN LET c == Max(0, r.counter - 2)
               IN [r EXCEPT !.counter = c, !.progress = ProgressOf(c),
                            !.bad = IF c = 0 THEN 0 ELSE b]
          ELSE [r EXCEPT !.bad = b]

\* A threshold check that withdraws the ready flag and keeps the lock
TickThresholdKeepsLock(r) ==
  IF r.counter >= STABILITY_FRAMES
  THEN IF ~r.stable
       THEN IF r.stage = "alignment"
            THEN [r EXCEPT !.stable = TRUE, !.stageTimers = @ + 1]
            ELSE [r EXCEPT !.stable = TRUE]
       ELSE r
  ELSE IF r.stable
       THEN [r EXCEPT !.stable = FALSE]
       ELSE r

TickThreshold(r) ==
  IF r.counter >= STABILITY_FRAMES
  THEN IF ~r.stable
       THEN IF r.stage = "alignment"
            THEN [r EXCEPT !.stable = TRUE, !.stageTimers = @ + 1]
            ELSE [r EXCEPT !.stable = TRUE]
       ELSE r
  ELSE IF r.stable
       THEN [r EXCEPT !.stable = FALSE, !.lock = FALSE]
       ELSE r

TickBody(r, met) == TickThreshold(TickCounters(r, met))

\* One more tick has passed for every suspended handleCapture call
AgeCalls(r) ==
  [r EXCEPT !.calls = [s \in Steps |->
                         [i \in DOMAIN r.calls[s] |-> r.calls[s][i] + 1]]]

RemoveAt(seq, i) == SubSeq(seq, 1, i - 1) \o SubSeq(seq, i + 1, Len(seq))

\* ----------------------------------------------------------------- handlers
handleCaptureBody(r, s) ==
  LET a == addCapturedImage(r, currentPosition(s))
      nextStep == s + 1
      b == setCurrentCaptureStep(a, nextStep)
  IN IF nextStep >= NumPositions
     THEN [b EXCEPT !.complete = IF r.mounted THEN TRUE ELSE @,
                    !.completeEvents = @ + 1]
     ELSE b

\* A catch block that gives the angle up and moves on
handleCaptureCatchAdvances(r) ==
  [setCurrentCaptureStep(r, r.step + 1) EXCEPT !.appStatus = "error"]

\* The catch block of handleCapture
handleCaptureCatch(r) == [r EXCEPT !.appStatus = "error"]

\* navigate('/') unmounts the page: its state and refs are gone, its
\* interval is cleared, and its pending timers find no video element and
\* an unmounted component, so they are dropped here.  A handleCapture call
\* suspended at its await still resumes and writes to the store.
Unmount(r) ==
  [r EXCEPT !.mounted = FALSE, !.stage = "alignment", !.isReady = FALSE,
            !.stable = FALSE, !.progress = 0, !.complete = FALSE,
            !.lock = FALSE, !.counter = 0, !.bad = 0,
            !.stageTimers = 0, !.timers = NoTimers]

handleBackBody(r) ==
  IF r.step > 0
  THEN setCurrentCaptureStep(r, r.step - 1)
  ELSE Unmount(clearCapturedImages(r))

handleRestartBody(r) ==
  [setCurrentCaptureStep(clearCapturedImages(r), 0)
     EXCEPT !.appStatus = "idle", !.complete = FALSE,
            !.stage = "alignment", !.isReady = FALSE]

resetScanBody(r) ==
  [setCurrentCaptureStep(clearCapturedImages(r), 0)
     EXCEPT !.appStatus = "idle", !.complete = FALSE,
            !.counter = 0, !.bad = 0, !.stable = FALSE, !.progress = 0,
            !.lock = FALSE, !.stage = "alignment", !.isReady = FALSE]

\* ------------------------------------------------------------------ actions
Do(r) ==
  \E next \in {r} :
    InBounds(next) /\ SetPage(next) /\ UNCHANGED <<stabVars, loopVars, estVars>>

\* The commit of a handler that left the page as new
DoCommit(new) == \E left \in {new} : Do(Commit(Page, left))

\* "I'm Ready" button, rendered while !isReady
HandleReadyClick ==
  /\ mounted /\ ~isReady
  /\ DoCommit([Page EXCEPT !.isReady = TRUE])

\* One run of the 100 ms interval callback; the interval exists while isReady.
\* Every render that schedules a capture timer also re-creates the interval
\* (both depend on stableStatus.isReady, scanStage and the step), after the
\* timer and with the same 100 ms delay, so a pending capture timer expires
\* before the next tick.
NoCaptureTimer == \A s \in Steps : captureTimers[s] = 0

\* A tick that is good whatever the nose position is
allConditionsMetWithoutNose(isFaceDetected, isLightingGood, isNoseAligned) ==
  isFaceDetected /\ isLightingGood

allConditionsMet(isFaceDetected, isLightingGood, isNoseAligned) ==
  isFaceDetected /\ isLightingGood /\ isNoseAligned

TickStep(observed) ==
  \E isFaceDetected \in BOOLEAN, isLightingGood \in BOOLEAN,
     isNoseAligned \in BOOLEAN :
    LET met == allConditionsMet(isFaceDetected, isLightingGood, isNoseAligned)
        r == AgeCalls(TickBody(Page, met))
        read == IF observed
                THEN <<isFaceDetected, isLightingGood, isNoseAligned>>
                ELSE <<>>
        run == IF ~observed THEN badTickRun
               ELSE IF met THEN 0 ELSE Min(MaxRun, badTickRun + 1)
    IN \E ticked \in {r} : DoCommit([ticked EXCEPT !.tick = read, !.run = run])

Tick ==
  /\ mounted /\ isReady
  /\ NoCaptureTimer
  /\ TickStep(FALSE)

\* The same tick, with what it read kept in lastTick
ObservedTick ==
  /\ mounted /\ isReady
  /\ NoCaptureTimer
  /\ TickStep(TRUE)

\* The 500 ms timer set when alignment completes
StageTimerFire ==
  /\ stageTimers > 0
  /\ LET r == [Page EXCEPT !.stageTimers = @ - 1]
     IN DoCommit([r EXCEPT !.stage = "capture"])

\* The 100 ms capture timer: grabs the frame and calls handleCapture, which
\* suspends at `await fetch(imageData)`.  grabbed = FALSE: the video or
\* canvas handle or the 2d context is missing and nothing is called.
CaptureTimerFire ==
  \E s \in Steps, grabbed \in BOOLEAN :
    /\ captureTimers[s] > 0
    /\ LET r == [Page EXCEPT !.timers[s] = @ - 1]
       IN IF grabbed
          THEN Do([r EXCEPT !.calls[s] = Append(@, 0)])
          ELSE Do([r EXCEPT !.undisturbed = FALSE, !.failed = TRUE])

\* handleCapture resumes after its awaits and stores the image
HandleCaptureDone ==
  \E s \in Steps : \E i \in DOMAIN captureCalls[s] :
    LET r == [Page EXCEPT !.calls[s] = RemoveAt(@, i)]
    IN DoCommit(handleCaptureBody(r, s))

\* fetch/blob rejects: the catch block sets the error status
HandleCaptureFail ==
  \E s \in Steps : \E i \in DOMAIN captureCalls[s] :
    LET r == [Page EXCEPT !.calls[s] = RemoveAt(@, i)]
    IN Do([handleCaptureCatch(r) EXCEPT !.undisturbed = FALSE, !.failed = TRUE])

\* Header buttons; the scan-complete modal is a full-screen overlay above them
HandleBack ==
  /\ mounted /\ ~isScanComplete
  /\ DoCommit([handleBackBody(Page) EXCEPT !.undisturbed = FALSE])

HandleRestart ==
  /\ mounted /\ ~isScanComplete
  /\ DoCommit([handleRestartBody(Page) EXCEPT !.undisturbed = FALSE,
                                                      !.completeEvents = 0])

\* "Retake" button of the scan-complete modal
ResetScan ==
  /\ mounted /\ isScanComplete
  /\ DoCommit([resetScanBody(Page) EXCEPT !.undisturbed = FALSE,
                                                  !.completeEvents = 0])

PageInit ==
  /\ capturedImages = <<>>
  /\ currentCaptureStep = 0
  /\ appStatus = "idle"
  /\ scanStage = "alignment"
  /\ isReady = FALSE
  /\ stableStatus = FALSE
  /\ stabilityProgress = 0
  /\ isScanComplete = FALSE
  /\ captureLockRef = FALSE
  /\ stabilityCounterRef = 0
  /\ badFrameCounterRef = 0
  /\ mounted = TRUE
  /\ stageTimers = 0
  /\ captureTimers = NoTimers
  /\ captureCalls = NoCalls
  /\ completeEvents = 0
  /\ undisturbed = TRUE
  /\ captureFailed = FALSE
  /\ lastTick = <<>>
  /\ badTickRun = 0

TickNext ==
  \/ HandleReadyClick
  \/ ObservedTick
  \/ StageTimerFire
  \/ CaptureTimerFire
  \/ HandleCaptureDone
  \/ HandleCaptureFail
  \/ HandleBack
  \/ HandleRestart
  \/ ResetScan

\* A session without Back, Restart and Retake
LiveNext ==
  \/ HandleReadyClick
  \/ ObservedTick
  \/ StageTimerFire
  \/ CaptureTimerFire
  \/ HandleCaptureDone
  \/ HandleCaptureFail

\* The interval runs every 100 ms and finds good readings whenever the user
\* holds the pose; timers expire; the promises handleCapture awaits settle.
GoodTick == ObservedTick /\ lastTick' = <<TRUE, TRUE, TRUE>>

LiveFairness ==
  /\ WF_vars(GoodTick)
  /\ WF_vars(StageTimerFire)
  /\ WF_vars(CaptureTimerFire)
  /\ WF_vars(HandleCaptureDone \/ HandleCaptureFail)

PageNext ==
  \/ HandleReadyClick
  \/ Tick
  \/ StageTimerFire
  \/ CaptureTimerFire
  \/ HandleCaptureDone
  \/ HandleCaptureFail
  \/ HandleBack
  \/ HandleRestart
  \/ ResetScan

\* ------------------------------------------------------ the signal stabilizer
stabilityRefInit ==
  [face |-> FALSE, align |-> FALSE, light |-> FALSE,
   faceGood |-> 0, faceBad |-> 0, alignGood |-> 0, alignBad |-> 0,
   lightGood |-> 0, lightBad |-> 0]

\* face branch: "Face present is already true in this branch"
FaceSmoothing(s) ==
  LET g == Min(STREAK_ON, s.faceGood + 1)
  IN [s EXCEPT !.faceGood = g, !.faceBad = 0,
               !.face = IF g >= STREAK_ON THEN TRUE ELSE @]

\* A smoothing without hysteresis on the way up: a bad reading does not
\* break the good streak
AlignSmoothingKeepsStreak(s, alignedNow) ==
  LET a == IF alignedNow
           THEN [s EXCEPT !.alignGood = Min(STREAK_ON, @ + 1), !.alignBad = 0]
           ELSE [s EXCEPT !.alignBad = Min(STREAK_OFF, @ + 1)]
      b == IF a.alignGood >= STREAK_ON THEN [a EXCEPT !.align = TRUE] ELSE a
  IN IF b.alignBad >= STREAK_OFF THEN [b EXCEPT !.align = FALSE] ELSE b

AlignSmoothing(s, alignedNow) ==
  LET a == IF alignedNow
           THEN [s EXCEPT !.alignGood = Min(STREAK_ON, @ + 1), !.alignBad = 0]
           ELSE [s EXCEPT !.alignBad = Min(STREAK_OFF, @ + 1), !.alignGood = 0]
      b == IF a.alignGood >= STREAK_ON THEN [a EXCEPT !.align = TRUE] ELSE a
  IN IF b.alignBad >= STREAK_OFF THEN [b EXCEPT !.align = FALSE] ELSE b

LightSmoothing(s, lightingNow) ==
  LET a == IF lightingNow
           THEN [s EXCEPT !.lightGood = Min(STREAK_ON, @ + 1), !.lightBad = 0]
           ELSE [s EXCEPT !.lightBad = Min(STREAK_OFF, @ + 1), !.lightGood = 0]
      b == IF a.lightGood >= STREAK_ON THEN [a EXCEPT !.light = TRUE] ELSE a
  IN IF b.lightBad >= STREAK_OFF THEN [b EXCEPT !.light = FALSE] ELSE b

\* A face loss that clears the face signal alone
FaceLossClearsFaceOnly(s) ==
  LET a == [s EXCEPT !.faceBad = Min(STREAK_OFF, @ + 1), !.faceGood = 0]
  IN IF a.faceBad >= STREAK_OFF THEN [a EXCEPT !.face = FALSE] ELSE a

\* no-face branch: "Update face presence smoothing when no face"
FaceLossSmoothing(s) ==
  LET a == [s EXCEPT !.faceBad = Min(STREAK_OFF, @ + 1), !.faceGood = 0]
  IN IF a.faceBad >= STREAK_OFF
     THEN [a EXCEPT !.face = FALSE, !.align = FALSE, !.light = FALSE]
     ELSE a

\* onMediaPipeResults for one result of the landmark detector: the new
\* stabilityRef and the analysisResult handed to onResults.  hasVideo is
\* videoRef.current being set; without it the face branch skips the analysis.
onMediaPipeResults(s, hasFace, alignedNow, lightingNow, hasVideo) ==
  IF hasFace
  THEN IF hasVideo
       THEN LET n == LightSmoothing(AlignSmoothing(FaceSmoothing(s), alignedNow),
                                    lightingNow)
            IN [ref |-> n,
                result |-> [isFaceDetected |-> TRUE, isAligned |-> n.align,
                            isLightingGood |-> n.light, landmarks |-> TRUE]]
       ELSE [ref |-> s,
             result |-> [isFaceDetected |-> TRUE, isAligned |-> FALSE,
                         isLightingGood |-> FALSE, landmarks |-> TRUE]]
  ELSE LET n == FaceLossSmoothing(s)
       IN [ref |-> n,
           result |-> [isFaceDetected |-> FALSE, isAligned |-> n.align,
                       isLightingGood |-> n.light, landmarks |-> FALSE]]

\* handleMediaPipeResults of ProcessingEngine: statusRef.current after it
\* has copied the result
handleMediaPipeResults(results) ==
  [isSet |-> TRUE, isFaceDetected |-> results.isFaceDetected,
   isAligned |-> results.isAligned, isLightingGood |-> results.isLightingGood,
   landmarks |-> results.landmarks]

\* The runs of raw readings as an observer counts them: a reading of the face
\* signal is a result the stabilizer consumes, a reading of alignment or
\* lighting is a result with a face whose pose and lighting were computed.
Run(n) == Min(MaxRun, n + 1)

ObserveRuns(r, hasFace, alignedNow, lightingNow, hasVideo) ==
  IF ~hasFace THEN [r EXCEPT !.faceBad = Run(@), !.faceGood = 0]
  ELSE IF ~hasVideo THEN r
  ELSE [r EXCEPT !.faceGood = Run(@), !.faceBad = 0,
                 !.alignGood = IF alignedNow THEN Run(@) ELSE 0,
                 !.alignBad = IF alignedNow THEN 0 ELSE Run(@),
                 !.lightGood = IF lightingNow THEN Run(@) ELSE 0,
                 !.lightBad = IF lightingNow THEN 0 ELSE Run(@)]

rawRunsInit ==
  [faceGood |-> 0, faceBad |-> 0, alignGood |-> 0, alignBad |-> 0,
   lightGood |-> 0, lightBad |-> 0]

\* One result of the landmark detector
OnMediaPipeResults ==
  \E hasFace \in BOOLEAN, alignedNow \in BOOLEAN, lightingNow \in BOOLEAN,
     hasVideo \in BOOLEAN :
    LET out == onMediaPipeResults(stabilityRef, hasFace, alignedNow,
                                  lightingNow, hasVideo)
    IN /\ stabilityRef' = out.ref
       /\ visionStatus' = handleMediaPipeResults(out.result)
       /\ rawRuns' = ObserveRuns(rawRuns, hasFace, alignedNow, lightingNow, hasVideo)
       /\ UNCHANGED <<advancesSinceTick, pageVars, loopVars, estVars>>

\* statusRef.current is null until the first result
StabInit ==
  /\ stabilityRef = stabilityRefInit
  /\ visionStatus = [isSet |-> FALSE, isFaceDetected |-> FALSE,
                     isAligned |-> FALSE, isLightingGood |-> FALSE,
                     landmarks |-> FALSE]
  /\ rawRuns = rawRunsInit
  /\ advancesSinceTick = 0

StabNext == OnMediaPipeResults

\* --------------------------------------------------------------- the frame loop
\* The hook and ProcessingEngine as a record, handlers as functions on it.
Loop == [init |-> isInitialized, sp |-> statusIsProcessing,
         ref |-> isProcessingRef, en |-> isEnabled, cl |-> cleanupStops,
         timer |-> autoStartTimer, sends |-> sendsInFlight,
         frame |-> frameRequested, orphans |-> orphanFrames,
         video |-> videoReady, err |-> statusError,
         stopped |-> stoppedSince, active |-> activeWhileStopped,
         halted |-> haltedWhileStopped, failed |-> criticalFailure]

SetLoop(h) ==
  /\ isInitialized' = h.init
  /\ statusIsProcessing' = h.sp
  /\ isProcessingRef' = h.ref
  /\ isEnabled' = h.en
  /\ cleanupStops' = h.cl
  /\ autoStartTimer' = h.timer
  /\ sendsInFlight' = h.sends
  /\ frameRequested' = h.frame
  /\ orphanFrames' = h.orphans
  /\ videoReady' = h.video
  /\ statusError' = h.err
  /\ stoppedSince' = h.stopped
  /\ activeWhileStopped' = h.active
  /\ haltedWhileStopped' = h.halted
  /\ criticalFailure' = h.failed

Chains(h) == h.sends + h.orphans + (IF h.frame THEN 1 ELSE 0)

\* animationFrameRef.current = requestAnimationFrame(processFrame): the
\* callback the ref named before, if still pending, stays scheduled
requestFrame(h) ==
  LET a == [h EXCEPT !.active = @ \/ h.stopped]
  IN IF h.frame THEN [a EXCEPT !.orphans = @ + 1] ELSE [a EXCEPT !.frame = TRUE]

\* The end of processFrame without the test of isProcessingRef
rescheduleAlways(h) == requestFrame(h)

\* `if (isProcessingRef.current) requestAnimationFrame(processFrame)`
reschedule(h) ==
  IF h.ref THEN requestFrame(h) ELSE [h EXCEPT !.halted = @ \/ h.stopped]

\* processFrame up to its await
processFrame(h) ==
  IF ~h.init \/ ~h.ref THEN [h EXCEPT !.halted = @ \/ h.stopped]
  ELSE IF h.video
       THEN [h EXCEPT !.sends = @ + 1, !.active = @ \/ h.stopped]
       ELSE reschedule(h)

startProcessing(h) ==
  LET c == [h EXCEPT !.stopped = FALSE, !.halted = FALSE]
  IN IF ~h.init \/ h.ref THEN c
     ELSE processFrame([c EXCEPT !.ref = TRUE, !.sp = TRUE, !.failed = FALSE])

stopProcessing(h) ==
  [h EXCEPT !.ref = FALSE, !.sp = FALSE, !.frame = FALSE, !.stopped = TRUE]

\* One run of ProcessingEngine's start/stop effect in a render that sees
\* status.isProcessing = h.sp: the cleanup of the previous run, then the body.
EngineEffect(h) ==
  LET a == IF h.cl THEN stopProcessing(h) ELSE h
  IN IF ~h.en
     THEN [stopProcessing(a) EXCEPT !.cl = FALSE]
     ELSE LET b == IF h.init /\ ~h.sp THEN startProcessing(a) ELSE a
          IN [b EXCEPT !.cl = h.sp]

\* The effect runs again while its setStatus calls change status.isProcessing
EngineCommit(h) ==
  LET a == EngineEffect(h)
  IN IF a.sp = h.sp THEN a
     ELSE LET b == EngineEffect(a)
          IN IF b.sp = a.sp THEN b ELSE EngineEffect(b)

DoLoop(h) ==
  /\ Chains(h) <= MaxLoops
  /\ SetLoop(h)
  /\ UNCHANGED <<pageVars, stabVars, estVars>>

\* initializeMediaPipe resolves: the hook's auto-start effect schedules its
\* timer (isProcessingRef is still false), then the engine's effect runs
InitializeMediaPipe ==
  /\ ~isInitialized /\ ~statusError
  /\ DoLoop(EngineCommit([Loop EXCEPT !.init = TRUE, !.timer = ~isProcessingRef]))

\* initializeMediaPipe fails (its catch block): the error is put in the status
InitializeFails ==
  /\ ~isInitialized /\ ~statusError
  /\ DoLoop([Loop EXCEPT !.err = TRUE])

\* isCameraReady or isComplete of ScanPage changes
SetEnabled ==
  /\ SetLoop(EngineCommit([Loop EXCEPT !.en = ~isEnabled]))
  /\ Chains(Loop') <= MaxLoops
  /\ UNCHANGED <<pageVars, stabVars, estVars>>

\* The camera stream starts delivering frames, or stops
VideoReadyChange ==
  /\ SetLoop([Loop EXCEPT !.video = ~videoReady])
  /\ UNCHANGED <<pageVars, stabVars, estVars>>

AutoStartTimerFire ==
  /\ autoStartTimer
  /\ LET a == startProcessing([Loop EXCEPT !.timer = FALSE])
     IN DoLoop(IF a.sp = statusIsProcessing THEN a ELSE EngineCommit(a))

\* A scheduled animation frame runs processFrame
FrameCallback ==
  \E named \in BOOLEAN :
    /\ IF named THEN frameRequested ELSE orphanFrames > 0
    /\ LET h == IF named THEN [Loop EXCEPT !.frame = FALSE]
                ELSE [Loop EXCEPT !.orphans = @ - 1]
       IN DoLoop(processFrame(h))

\* An awaited send returns, or throws an error whose message mentions
\* 'abort' (or has no message): the loop goes on
SendReturns ==
  /\ sendsInFlight > 0
  /\ DoLoop(reschedule([Loop EXCEPT !.sends = @ - 1]))

\* An awaited send throws any other error: "Stopping processing due to
\* critical error"
SendThrows ==
  /\ sendsInFlight > 0
  /\ DoLoop([Loop EXCEPT !.sends = @ - 1, !.ref = FALSE, !.failed = TRUE])

LoopInit ==
  /\ isInitialized = FALSE
  /\ statusIsProcessing = FALSE
  /\ isProcessingRef = FALSE
  /\ isEnabled = FALSE
  /\ cleanupStops = FALSE
  /\ autoStartTimer = FALSE
  /\ sendsInFlight = 0
  /\ frameRequested = FALSE
  /\ orphanFrames = 0
  /\ videoReady = FALSE
  /\ statusError = FALSE
  /\ stoppedSince = FALSE
  /\ activeWhileStopped = FALSE
  /\ haltedWhileStopped = FALSE
  /\ criticalFailure = FALSE

LoopNext ==
  \/ InitializeMediaPipe
  \/ InitializeFails
  \/ SetEnabled
  \/ VideoReadyChange
  \/ AutoStartTimerFire
  \/ FrameCallback
  \/ SendReturns
  \/ SendThrows

\* ------------------------------------------- frame results and ticks together
\* The frame loop delivers results until a send throws a critical error;
\* the interval of ScanPage reads statusRef.current on its own clock.
FrameResult ==
  /\ ~criticalFailure
  /\ \E hasFace \in BOOLEAN, alignedNow \in BOOLEAN, lightingNow \in BOOLEAN,
        hasVideo \in BOOLEAN :
       LET out == onMediaPipeResults(stabilityRef, hasFace, alignedNow,
                                     lightingNow, hasVideo)
       IN /\ stabilityRef' = out.ref
          /\ visionStatus' = handleMediaPipeResults(out.result)
          /\ advancesSinceTick' = IF hasFace /\ ~hasVideo THEN advancesSinceTick
                                  ELSE Min(2, advancesSinceTick + 1)
  /\ UNCHANGED <<rawRuns, pageVars, loopVars, estVars>>

\* The catch block of processFrame on an error that is not an abort
DetectorError ==
  /\ ~criticalFailure
  /\ SetLoop([Loop EXCEPT !.ref = FALSE, !.failed = TRUE])
  /\ UNCHANGED <<pageVars, stabVars, estVars>>

\* The interval callback with the status the frame results left; it returns
\* at once while the status is null.  noseInZone is what
\* isNoseAlignedWithTarget makes of the landmarks of the status.
PipelineTick ==
  /\ mounted /\ isReady
  /\ NoCaptureTimer
  /\ visionStatus.isSet
  /\ \E noseInZone \in BOOLEAN :
       LET isNoseAligned == IF visionStatus.landmarks THEN noseInZone ELSE FALSE
           met == allConditionsMet(visionStatus.isFaceDetected,
                                   visionStatus.isLightingGood, isNoseAligned)
       IN \E next \in {Commit(Page, AgeCalls(TickBody(Page, met)))} :
            /\ InBounds(next)
            /\ next.counter <= MaxPipelineStreak
            /\ SetPage(next)
  /\ advancesSinceTick' = 0
  /\ UNCHANGED <<stabilityRef, visionStatus, rawRuns, loopVars, estVars>>

PipelineNext ==
  \/ HandleReadyClick
  \/ FrameResult
  \/ DetectorError
  \/ PipelineTick

\* --------------------------------------------------------------- the estimators
\* A landmark set is modelled by its length (NullLandmarks for null), a
\* missing entry by entriesOk = FALSE; the angles solvePnP computes from the
\* six image points are an input.  Brightness values are kept exact: a mean
\* of three values as three times the mean, a standard deviation as nine
\* times its square.
NullLandmarks == 0 - 1

LANDMARK_INDICES ==
  [NOSE_TIP |-> 1, CHIN |-> 175, LEFT_EYE_LEFT |-> 33, RIGHT_EYE_RIGHT |-> 362,
   LEFT_MOUTH |-> 61, RIGHT_MOUTH |-> 291, FOREHEAD_CENTER |-> 9,
   LEFT_CHEEK |-> 116, RIGHT_CHEEK |-> 345]

NeutralPose == [yaw |-> 0, pitch |-> 0, roll |-> 0]

NeutralLighting ==
  [isGood |-> FALSE, score |-> 0, evenness |-> 0, brightness |-> 0,
   standardDeviation9 |-> 0]

\* the inputs the estimators are called with
LandmarkLengths == {NullLandmarks, 0, 1, 10, 117, 176, 345, 346, 362, 363, 478}

FrameSizes == {0 - 1, 0, 640}

RawPoses ==
  [yaw : {0 - 100, 0, 30}, pitch : {0, 95}, roll : {0 - 181, 0, 170}]

RegionValues == {0, 20, 21, 40, 60, 80, 100, 145, 150, 155, 180, 200, 220, 240, 255}

ExampleRegions == <<150, 155, 145>>

\* A head pose estimator that trusts its input
calculateHeadPoseUnvalidated(landmarks, imageWidth, imageHeight, entriesOk, pnp) ==
  [yaw |-> Max(0 - 90, Min(90, pnp.yaw)),
   pitch |-> Max(0 - 90, Min(90, pnp.pitch)),
   roll |-> Max(0 - 180, Min(180, pnp.roll))]

\* calculateHeadPose; reading .x of a missing entry throws inside the try
\* block and the catch block returns the neutral pose
calculateHeadPose(landmarks, imageWidth, imageHeight, entriesOk, pnp) ==
  IF landmarks = NullLandmarks \/ landmarks = 0
     \/ imageWidth <= 0 \/ imageHeight <= 0
  THEN NeutralPose
  ELSE LET requiredIndices ==
             {LANDMARK_INDICES.NOSE_TIP, LANDMARK_INDICES.CHIN,
              LANDMARK_INDICES.LEFT_EYE_LEFT, LANDMARK_INDICES.RIGHT_EYE_RIGHT,
              LANDMARK_INDICES.LEFT_MOUTH, LANDMARK_INDICES.RIGHT_MOUTH}
           maxIndex == landmarks - 1
       IN IF \E index \in requiredIndices : index > maxIndex THEN NeutralPose
          ELSE IF ~entriesOk THEN NeutralPose
          ELSE [yaw |-> Max(0 - 90, Min(90, pnp.yaw)),
                pitch |-> Max(0 - 90, Min(90, pnp.pitch)),
                roll |-> Max(0 - 180, Min(180, pnp.roll))]

Sum3(values) == values[1] + values[2] + values[3]

\* A variance with the divisor of the sample variance, values.length - 1
calculateSampleVariance9(values) ==
  LET s == Sum3(values)
  IN ((3 * values[1] - s) * (3 * values[1] - s)
      + (3 * values[2] - s) * (3 * values[2] - s)
      + (3 * values[3] - s) * (3 * values[3] - s)) \div (Len(values) - 1)

\* calculateVariance for three finite values, times 9: the squared
\* differences from the mean s/3 are (3v - s)^2 / 9
calculateVariance9(values) ==
  LET s == Sum3(values)
  IN ((3 * values[1] - s) * (3 * values[1] - s)
      + (3 * values[2] - s) * (3 * values[2] - s)
      + (3 * values[3] - s) * (3 * values[3] - s)) \div Len(values)

\* calculateBrightnessScore of the mean s/3
calculateBrightnessScore(s) ==
  IF s >= 3 * 100 /\ s <= 3 * 180 THEN 100
  ELSE IF s >= 3 * 80 /\ s <= 3 * 200 THEN 80
  ELSE IF s >= 3 * 60 /\ s <= 3 * 220 THEN 60
  ELSE IF s >= 3 * 40 /\ s <= 3 * 240 THEN 40
  ELSE 20

\* calculateEvennessScore of the standard deviation sqrt(v9 / 9)
calculateEvennessScore(v9) ==
  IF v9 <= 9 * 10 * 10 THEN 100
  ELSE IF v9 <= 9 * 20 * 20 THEN 80
  ELSE IF v9 <= 9 * 30 * 30 THEN 60
  ELSE IF v9 <= 9 * 40 * 40 THEN 40
  ELSE 20

\* Math.round(s / 3) for s >= 0
RoundThird(s) == (2 * s + 3) \div 6

\* calculateLightingQuality; regions holds the brightness of the forehead,
\* left cheek and right cheek regions of the frame.  getImageData throws on
\* no input that passed the first test; a missing entry throws in
\* getLandmarkRegion and the catch block returns the neutral result.
calculateLightingQuality(context, landmarks, imageWidth, imageHeight, dataEmpty, entriesOk, regions) ==
  IF ~context \/ landmarks = NullLandmarks \/ landmarks = 0
     \/ imageWidth <= 0 \/ imageHeight <= 0
  THEN NeutralLighting
  ELSE IF dataEmpty THEN NeutralLighting
  ELSE LET maxIndex == landmarks - 1
       IN IF LANDMARK_INDICES.FOREHEAD_CENTER > maxIndex
             \/ LANDMARK_INDICES.LEFT_CHEEK > maxIndex
             \/ LANDMARK_INDICES.RIGHT_CHEEK > maxIndex
          THEN NeutralLighting
          ELSE IF ~entriesOk THEN NeutralLighting
          ELSE LET s == Sum3(regions)
                   v9 == calculateVariance9(regions)
                   brightnessScore == calculateBrightnessScore(s)
                   evennessScore == calculateEvennessScore(v9)
               IN [isGood |-> s > 3 * 20 /\ s < 3 * 240,
                   score |-> (brightnessScore + evennessScore) \div 2,
                   evenness |-> evennessScore,
                   brightness |-> RoundThird(s),
                   standardDeviation9 |-> v9]

\* The estimators are pure: one call from the initial state shows all
\* there is to see of an input.
CalculateHeadPose ==
  /\ estimatorCall.fn = "none"
  /\ \E landmarks \in LandmarkLengths, imageWidth \in FrameSizes,
        imageHeight \in FrameSizes, entriesOk \in BOOLEAN, pnp \in RawPoses :
    /\ estimatorCall' = [fn |-> "calculateHeadPose", landmarks |-> landmarks,
                         imageWidth |-> imageWidth, imageHeight |-> imageHeight,
                         entriesOk |-> entriesOk, pnp |-> pnp]
    /\ estimatorResult' = calculateHeadPose(landmarks, imageWidth, imageHeight,
                                            entriesOk, pnp)
    /\ UNCHANGED <<pageVars, stabVars, loopVars, noseTrack>>

\* Every frame content is tried on a well-formed call, the frame of the
\* example on the others
CalculateLightingQuality ==
  /\ estimatorCall.fn = "none"
  /\ \E context \in BOOLEAN, landmarks \in LandmarkLengths,
        imageWidth \in FrameSizes, imageHeight \in FrameSizes,
        dataEmpty \in BOOLEAN, entriesOk \in BOOLEAN :
     \E regions \in
          IF context /\ landmarks = 478 /\ imageWidth > 0 /\ imageHeight > 0
             /\ ~dataEmpty /\ entriesOk
          THEN RegionValues \X RegionValues \X RegionValues
          ELSE {ExampleRegions} :
    /\ estimatorCall' = [fn |-> "calculateLightingQuality", context |-> context,
                         landmarks |-> landmarks, imageWidth |-> imageWidth,
                         imageHeight |-> imageHeight, dataEmpty |-> dataEmpty,
                         entriesOk |-> entriesOk, regions |-> regions]
    /\ estimatorResult' = calculateLightingQuality(context, landmarks, imageWidth,
                                                   imageHeight, dataEmpty,
                                                   entriesOk, regions)
    /\ UNCHANGED <<pageVars, stabVars, loopVars, noseTrack>>

EstInit ==
  /\ estimatorCall = [fn |-> "none"]
  /\ estimatorResult = [fn |-> "none"]
  /\ noseTrack = [started |-> FALSE]

EstNext ==
  \/ CalculateHeadPose
  \/ CalculateLightingQuality

\* ------------------------------------------------------ the target-zone test
\* The nose tip's normalized x is kept in thousandths, so that
\* noseX = noseTipX * innerWidth / NoseUnit; the comparisons of the code are
\* made on both sides times NoseUnit.  A landmark set is its length.
NoseUnit == 1000

NoseXs == (0 - 20) .. MaxNoseX

WindowWidths == {320, 1000, 1920}

TurnSteps == {1, 9, 50}

Abs(n) == IF n < 0 THEN 0 - n ELSE n

\* A target-zone test whose left zone does not include its edge
isNoseAlignedWithTargetStrict(landmarks, noseTipX, innerWidth, requiredPosition) ==
  IF landmarks = NullLandmarks \/ landmarks = 0 THEN FALSE
  ELSE IF landmarks < 2 THEN FALSE
  ELSE LET noseX == noseTipX * innerWidth
       IN CASE requiredPosition = "center" ->
                 Abs(noseX - innerWidth * 500) < 50 * NoseUnit
            [] requiredPosition = "left" -> noseX < innerWidth * 400
            [] requiredPosition = "right" -> noseX >= innerWidth * 600
            [] OTHER -> FALSE

isNoseAlignedWithTarget(landmarks, noseTipX, innerWidth, requiredPosition) ==
  IF landmarks = NullLandmarks \/ landmarks = 0 THEN FALSE
  ELSE IF landmarks < 2 THEN FALSE
  ELSE LET noseX == noseTipX * innerWidth
       IN CASE requiredPosition = "center" ->
                 Abs(noseX - innerWidth * 500) < 50 * NoseUnit
            [] requiredPosition = "left" -> noseX <= innerWidth * 400
            [] requiredPosition = "right" -> noseX >= innerWidth * 600
            [] OTHER -> FALSE

\* The first frame of a head turn is tested
StartTurn ==
  /\ ~noseTrack.started
  /\ \E landmarks \in {NullLandmarks, 0, 1, 2, 478}, noseTipX \in NoseXs,
        innerWidth \in WindowWidths, requiredPosition \in Angles :
       noseTrack' =
         [started |-> TRUE, landmarks |-> landmarks, noseTipX |-> noseTipX,
          innerWidth |-> innerWidth, requiredPosition |-> requiredPosition,
          aligned |-> isNoseAlignedWithTarget(landmarks, noseTipX, innerWidth,
                                              requiredPosition),
          rises |-> 0, falls |-> 0]
  /\ UNCHANGED <<pageVars, stabVars, loopVars, estimatorCall, estimatorResult>>

\* The next frame of the turn: the nose has moved to the left, or not at all
TurnLeft ==
  /\ noseTrack.started
  /\ \E d \in TurnSteps \cup {0} :
       LET x == noseTrack.noseTipX - d
           now == isNoseAlignedWithTarget(noseTrack.landmarks, x,
                                          noseTrack.innerWidth,
                                          noseTrack.requiredPosition)
       IN /\ x \in NoseXs
          /\ noseTrack' =
               [noseTrack EXCEPT
                  !.noseTipX = x, !.aligned = now,
                  !.rises = IF ~noseTrack.aligned /\ now THEN @ + 1 ELSE @,
                  !.falls = IF noseTrack.aligned /\ ~now THEN @ + 1 ELSE @]
  /\ UNCHANGED <<pageVars, stabVars, loopVars, estimatorCall, estimatorResult>>

HeadTurnNext ==
  \/ StartTurn
  \/ TurnLeft

\* ------------------------------------------------- properties of the page
ImagesOf(angle) == {i \in DOMAIN capturedImages : capturedImages[i] = angle}

PendingFor(s) == captureTimers[s] + Len(captureCalls[s])

\* C1: the stored images hold at most one image for each of the angles
\* center, left and right, in every reachable state.
C1_AtMostOneImagePerAngle ==
  \A angle \in Angles : Cardinality(ImagesOf(angle)) <= 1

\* C2: a capture is started for a step (the capture effect schedules its
\* timer) only when no capture started earlier for that step is still
\* pending, be it as a timer or as a handleCapture call that has not finished.
C2_OneCapturePerStep ==
  [][\A s \in Steps :
       captureTimers'[s] > captureTimers[s] => PendingFor(s) = 0]_vars

\* C3: in a session with one ready confirmation, no Back, Restart or Retake
\* and no failed frame grab, the stored images are a prefix of
\* center, left, right, and the scan-complete event has been raised exactly
\* once if all three are stored and not at all otherwise.
C3_FullSessionThreeImagesInOrder ==
  undisturbed =>
    /\ Len(capturedImages) <= NumPositions
    /\ capturedImages = SubSeq(capturePositions, 1, Len(capturedImages))
    /\ completeEvents = (IF Len(capturedImages) = NumPositions THEN 1 ELSE 0)

\* C4: whenever the session is complete (step index past the last angle and
\* scan-complete flag set) every angle has a stored image.
C4_CompleteHasEveryAngle ==
  (currentCaptureStep >= NumPositions /\ isScanComplete) =>
    \A angle \in Angles : ImagesOf(angle) # {}

\* C5: from a state whose step index is past the last angle no step stores
\* a further image or starts a further capture (a reset only empties the list).
C5_NoCaptureAfterComplete ==
  [][currentCaptureStep >= NumPositions =>
       /\ Len(capturedImages') <= Len(capturedImages)
       /\ \A s \in Steps : captureTimers'[s] <= captureTimers[s]]_vars

\* C6: from a state in which the user has not confirmed readiness no step
\* raises the stability streak, changes the scan stage to capture, starts a
\* capture or stores an image.
C6_NothingBeforeReady ==
  [][(mounted /\ ~isReady) =>
       /\ stabilityCounterRef' <= stabilityCounterRef
       /\ (scanStage' = "capture" => scanStage = "capture")
       /\ \A s \in Steps : captureTimers'[s] <= captureTimers[s]
       /\ Len(capturedImages') <= Len(capturedImages)]_vars


\* C9: a reset of a running session (Restart or Retake: the only steps that
\* withdraw the user's ready confirmation on the mounted page) leaves the
\* stability streak and the bad-tick counter at 0, the capture lock
\* released, the ready flags false and the Stabilizer at its initial values.
C9_ResetClearsEverything ==
  [][(mounted /\ mounted' /\ isReady /\ ~isReady') =>
       /\ stabilityCounterRef' = 0
       /\ badFrameCounterRef' = 0
       /\ captureLockRef' = FALSE
       /\ stableStatus' = FALSE
       /\ stabilityRef' = stabilityRefInit]_vars

\* C13: a capture that fails at the trigger (the frame cannot be grabbed, or
\* its conversion rejects) stores no image and leaves the step index as it was.
C13_FailedCaptureStoresNothing ==
  [][captureFailed' =>
       /\ capturedImages' = capturedImages
       /\ currentCaptureStep' = currentCaptureStep]_vars

\* the conversion of the frame grabbed for the second angle has just failed
C13_Witness ==
  /\ captureFailed /\ appStatus = "error"
  /\ capturedImages = <<"center">> /\ currentCaptureStep = 1

\* C14: after a capture that failed at the trigger the capture lock is
\* released.
C14_FailedCaptureReleasesLock == captureFailed => ~captureLockRef

\* C15: the stability progress percentage is between 0 and 100 in every
\* reachable state.
C15_ProgressWithinPercent == stabilityProgress \in 0 .. 100

\* C19: a tick raises the stability streak, and then by exactly 1, if and
\* only if it read face-detected, lighting-good and nose-in-target-zone all
\* true; the step is declared ready only on a tick that leaves the streak
\* at STABILITY_FRAMES or more.
C19_StreakCountsQualifyingTicks ==
  [][/\ (lastTick' = <<TRUE, TRUE, TRUE>>) =>
          (stabilityCounterRef' = stabilityCounterRef + 1)
     /\ (stabilityCounterRef' > stabilityCounterRef) =>
          /\ lastTick' = <<TRUE, TRUE, TRUE>>
          /\ stabilityCounterRef' = stabilityCounterRef + 1
     /\ (~stableStatus /\ stableStatus') =>
          (lastTick' # <<>> /\ stabilityCounterRef' >= STABILITY_FRAMES)]_vars

\* the tick that declared the step ready
C19_Witness ==
  /\ lastTick = <<TRUE, TRUE, TRUE>> /\ stableStatus
  /\ stabilityCounterRef = STABILITY_FRAMES /\ stageTimers = 1

\* C21: a bad tick that is at most the third in a row leaves the stability
\* streak unchanged, a good tick sets the bad-tick counter to 0, and a bad
\* tick that is the fourth or a later one in a row lowers the streak by 2,
\* stopping at 0.
C21_BadTicksForgivenUpToBuffer ==
  [][lastTick' # <<>> =>
       IF lastTick' = <<TRUE, TRUE, TRUE>>
       THEN badFrameCounterRef' = 0
       ELSE IF badTickRun' <= BAD_FRAME_BUFFER
            THEN stabilityCounterRef' = stabilityCounterRef
            ELSE stabilityCounterRef' = Max(0, stabilityCounterRef - 2)]_vars

\* the fourth bad tick in a row has taken 2 off a streak of 45
C21_Witness ==
  /\ lastTick # <<>> /\ lastTick # <<TRUE, TRUE, TRUE>>
  /\ badTickRun = BAD_FRAME_BUFFER + 1
  /\ stabilityCounterRef = STABILITY_FRAMES - 2

\* C22: a tick that takes the streak of a step declared ready below the
\* threshold withdraws the ready flag and releases the capture lock, sets
\* no error, leaves the step index as it was and triggers no capture; and a
\* capture is triggered only by a step that leaves the streak at the
\* threshold or above.
C22_ReadyWithdrawnOnStreakFall ==
  [][/\ (/\ lastTick' # <<>> /\ stableStatus
         /\ stabilityCounterRef' < STABILITY_FRAMES) =>
          /\ ~stableStatus' /\ ~captureLockRef'
          /\ appStatus' = appStatus
          /\ currentCaptureStep' = currentCaptureStep
          /\ captureTimers' = captureTimers
     /\ (\E s \in Steps : captureTimers'[s] > captureTimers[s]) =>
          stabilityCounterRef' >= STABILITY_FRAMES]_vars

\* stability was lost while the stage timer of the ready declaration was
\* still pending, before any capture
C22_Witness ==
  /\ lastTick # <<>> /\ lastTick # <<TRUE, TRUE, TRUE>>
  /\ ~stableStatus /\ ~captureLockRef /\ stageTimers = 1
  /\ scanStage = "alignment" /\ capturedImages = <<>>
  /\ stabilityCounterRef = STABILITY_FRAMES - 2
  /\ \A s \in Steps : PendingFor(s) = 0

\* C23: a step of the mounted page that stores an image and leaves the step
\* index at a later angle leaves the scan stage at alignment, the streak and
\* the bad-tick counter at 0, the lock released, the ready flag false and
\* the Stabilizer at its initial values; one that leaves the step index past
\* the last angle leaves the scan-complete flag set.
C23_ResetAfterCapture ==
  [][(mounted' /\ Len(capturedImages') > Len(capturedImages)) =>
       IF currentCaptureStep' < NumPositions
       THEN /\ scanStage' = "alignment"
            /\ stabilityCounterRef' = 0
            /\ badFrameCounterRef' = 0
            /\ ~captureLockRef'
            /\ ~stableStatus'
            /\ stabilityRef' = stabilityRefInit
       ELSE isScanComplete']_vars

\* C27: in every reachable state the current step index equals the number
\* of stored images.
C27_StepIsNumberOfImages == currentCaptureStep = Len(capturedImages)

\* C28: while the user has not confirmed readiness (at the start and after
\* Restart or Retake) the scan stage of the mounted page is alignment and no
\* image is stored, whatever timers and captures were pending; and every
\* image is stored under the angle that is current when it is stored.
C28_DelayedActionsCancelled ==
  [][/\ (mounted' /\ ~isReady') =>
          (scanStage' = "alignment" /\ capturedImages' = <<>>)
     /\ Len(capturedImages') > Len(capturedImages) =>
          capturedImages'[Len(capturedImages')]
            = currentPosition(currentCaptureStep)]_vars

\* C30: in a session without Back, Restart and Retake, if the user confirms
\* readiness and from some point on every tick reads all three conditions
\* true and no capture fails, the session is eventually complete.
C30_EventuallyComplete ==
  (<>isReady /\ <>[](lastTick \in {<<>>, <<TRUE, TRUE, TRUE>>} /\ ~captureFailed))
    => <>isScanComplete

\* C20: the ready declaration comes after about 1.5 seconds of continuously
\* good ticks: the streak a tick declares the step ready at, times the tick
\* period, lies within half a second of 1500 ms.
C20_ReadyAfterAboutOneAndAHalfSeconds ==
  [][(~stableStatus /\ stableStatus') =>
       (stabilityCounterRef' * TICK_PERIOD_MS \in 1000 .. 2000)]_vars

C8_FaceLossForcesFalse ==
  [][(rawRuns.faceBad = STREAK_OFF - 1 /\ rawRuns'.faceBad = STREAK_OFF) =>
       (~visionStatus'.isAligned /\ ~visionStatus'.isLightingGood)]_vars

\* the face was just lost while the alignment and lighting streaks are full
C8_Witness ==
  /\ rawRuns.faceBad = STREAK_OFF
  /\ stabilityRef.alignGood = STREAK_ON /\ stabilityRef.lightGood = STREAK_ON
  /\ ~stabilityRef.face /\ ~visionStatus.isAligned /\ ~visionStatus.isLightingGood

\* C16: the face-detected flag handed to the capture state machine turns
\* true only on a result that completes at least STREAK_ON consecutive face
\* readings and false only on one that completes at least STREAK_OFF
\* consecutive no-face readings.
C16_ExposedFaceFlagDebounced ==
  [][/\ (~visionStatus.isFaceDetected /\ visionStatus'.isFaceDetected)
          => rawRuns'.faceGood >= STREAK_ON
     /\ (visionStatus.isFaceDetected /\ ~visionStatus'.isFaceDetected)
          => rawRuns'.faceBad >= STREAK_OFF]_vars

\* C26: whenever the stabilized face signal is false the stabilized
\* alignment and lighting signals are false too.
C26_NoFaceNoAlignmentNoLighting ==
  ~stabilityRef.face => (~stabilityRef.align /\ ~stabilityRef.light)

\* ------------------------------- properties of frame results and ticks together
\* C24: between two ticks the hysteresis counters of the Stabilizer advance
\* at most once, however many frame results arrive.
C24_CountersAdvanceOncePerTick == advancesSinceTick <= 1

\* C29: once a detector error has stopped the frame loop, no step raises the
\* stability streak or triggers a capture.
C29_NoProgressAfterDetectorError ==
  [][criticalFailure =>
       /\ stabilityCounterRef' <= stabilityCounterRef
       /\ \A s \in Steps : captureTimers'[s] <= captureTimers[s]]_vars

\* ------------------------------------------------ properties of the frame loop
\* C10: at most one frame submission to the landmark detector is in flight.
C10_OneSubmissionInFlight == sendsInFlight <= 1

\* C11: after stopProcessing, and until startProcessing is called again, no
\* frame is submitted and no animation frame is requested; a send in flight
\* may return and a frame scheduled earlier may run, to no effect.
C11_StopHaltsLoop == ~activeWhileStopped

\* a send returned or a scheduled frame ran after the stop and did nothing
C11_Witness ==
  /\ stoppedSince /\ haltedWhileStopped
  /\ isInitialized /\ videoReady /\ ~isProcessingRef

\* C12: after a send threw a critical error the status reports the error
\* and no longer reports processing as running.
C12_SendFailureReported ==
  criticalFailure => (statusError /\ ~statusIsProcessing)

\* ------------------------------------------ properties of the target-zone test
\* C25: with a nose tip among the landmarks, the test for left is true
\* exactly when noseX <= 0.4 * width, for right exactly when
\* noseX >= 0.6 * width, for center exactly when |noseX - 0.5 * width| < 50;
\* and along a turn to the left the result for left never falls and has
\* risen exactly once if the turn began outside the zone and is now inside.
C25_TargetZoneTest ==
  (noseTrack.started /\ noseTrack.landmarks >= 2) =>
    LET w == noseTrack.innerWidth
        noseX1000 == noseTrack.noseTipX * w
        inLeft == noseX1000 <= 400 * w
        inRight == noseX1000 >= 600 * w
        inCenter == /\ noseX1000 - 500 * w < 50000
                    /\ 500 * w - noseX1000 < 50000
    IN /\ noseTrack.requiredPosition = "left" =>
            /\ noseTrack.aligned = inLeft
            /\ noseTrack.falls = 0 /\ noseTrack.rises <= 1
            /\ noseTrack.rises = 1 => noseTrack.aligned
       /\ noseTrack.requiredPosition = "right" => noseTrack.aligned = inRight
       /\ noseTrack.requiredPosition = "center" => noseTrack.aligned = inCenter

\* a turn from the center has just reached the edge of the left zone
C25_Witness ==
  /\ noseTrack.started /\ noseTrack.landmarks = 478
  /\ noseTrack.requiredPosition = "left" /\ noseTrack.noseTipX = 400
  /\ noseTrack.aligned /\ noseTrack.rises = 1 /\ noseTrack.falls = 0

\* ------------------------------------------------ properties of the estimators
\* C17: calculateHeadPose returns the neutral pose for a null or empty
\* landmark set, one of length <= 362, or a non-positive width or height;
\* calculateLightingQuality returns its neutral result for a missing context,
\* null or empty landmarks or landmarks of length <= 345, non-positive
\* dimensions or an empty pixel buffer.
C17_NeutralOnInvalidInput ==
  /\ (/\ estimatorCall.fn = "calculateHeadPose"
      /\ \/ estimatorCall.landmarks = NullLandmarks
         \/ estimatorCall.landmarks <= LANDMARK_INDICES.RIGHT_EYE_RIGHT
         \/ estimatorCall.imageWidth <= 0
         \/ estimatorCall.imageHeight <= 0)
       => estimatorResult = NeutralPose
  /\ (/\ estimatorCall.fn = "calculateLightingQuality"
      /\ \/ ~estimatorCall.context
         \/ estimatorCall.landmarks = NullLandmarks
         \/ estimatorCall.landmarks <= LANDMARK_INDICES.RIGHT_CHEEK
         \/ estimatorCall.imageWidth <= 0
         \/ estimatorCall.imageHeight <= 0
         \/ estimatorCall.dataEmpty)
       => estimatorResult = NeutralLighting

\* the landmark set is one entry too short for the head pose and the angles
\* computed from it would not be neutral
C17_Witness ==
  /\ estimatorCall.fn = "calculateHeadPose"
  /\ estimatorCall.landmarks = LANDMARK_INDICES.RIGHT_EYE_RIGHT
  /\ estimatorCall.imageWidth > 0 /\ estimatorCall.imageHeight > 0
  /\ estimatorCall.entriesOk /\ estimatorCall.pnp.yaw = 30
  /\ estimatorResult = NeutralPose

\* a call of calculateLightingQuality whose input passes every validation
WellFormedLightingCall ==
  /\ estimatorCall.fn = "calculateLightingQuality"
  /\ estimatorCall.context /\ ~estimatorCall.dataEmpty /\ estimatorCall.entriesOk
  /\ estimatorCall.landmarks > LANDMARK_INDICES.RIGHT_CHEEK
  /\ estimatorCall.imageWidth > 0 /\ estimatorCall.imageHeight > 0

\* the band tables, on a mean m3 / 3 and a squared deviation d9 / 9
BrightnessBand(m3) ==
  CASE 300 <= m3 /\ m3 <= 540 -> 100
    [] (240 <= m3 /\ m3 < 300) \/ (540 < m3 /\ m3 <= 600) -> 80
    [] (180 <= m3 /\ m3 < 240) \/ (600 < m3 /\ m3 <= 660) -> 60
    [] (120 <= m3 /\ m3 < 180) \/ (660 < m3 /\ m3 <= 720) -> 40
    [] OTHER -> 20

EvennessBand(d9) ==
  CASE d9 <= 900 -> 100
    [] 900 < d9 /\ d9 <= 3600 -> 80
    [] 3600 < d9 /\ d9 <= 8100 -> 60
    [] 8100 < d9 /\ d9 <= 14400 -> 40
    [] OTHER -> 20

\* what the result says besides the brightness, for regions r
LightingScoresAsTabulated(r) ==
  LET m3 == r[1] + r[2] + r[3]
      d9 == 3 * (r[1] * r[1] + r[2] * r[2] + r[3] * r[3]) - m3 * m3
  IN /\ estimatorResult.standardDeviation9 = d9
     /\ estimatorResult.evenness = EvennessBand(d9)
     /\ 2 * estimatorResult.score = BrightnessBand(m3) + EvennessBand(d9)
     /\ estimatorResult.isGood = (60 < m3 /\ m3 < 720)
     /\ r = ExampleRegions =>
          /\ estimatorResult.brightness = 150 /\ estimatorResult.score = 100
          /\ estimatorResult.evenness = 100 /\ estimatorResult.isGood

\* C18: for three regional brightness values the result holds the
\* population standard deviation, the evenness and overall scores of the
\* band tables, isGood = (20 < mean < 240), and as brightness the mean
\* rounded to the nearest integer; the example gives 150, 100, 100, true.
C18_LightingResult ==
  WellFormedLightingCall =>
    LET r == estimatorCall.regions
    IN /\ LightingScoresAsTabulated(r)
       /\ 6 * estimatorResult.brightness - 2 * (r[1] + r[2] + r[3]) \in -2 .. 3

\* the frame of the example has been analysed
C18_Witness ==
  /\ WellFormedLightingCall /\ estimatorCall.regions = ExampleRegions
  /\ estimatorResult.score = 100 /\ estimatorResult.isGood

\* C18 as stated: the brightness of the result is the mean itself.
C18_BrightnessIsTheMean ==
  WellFormedLightingCall =>
    LET r == estimatorCall.regions
    IN /\ LightingScoresAsTabulated(r)
       /\ 3 * estimatorResult.brightness = r[1] + r[2] + r[3]

Init == PageInit /\ StabInit /\ LoopInit /\ EstInit

Next == PageNext

Spec == Init /\ [][Next]_vars

TickSpec == Init /\ [][TickNext]_vars

LiveSpec == Init /\ [][LiveNext]_vars /\ LiveFairness

StabilizerSpec == Init /\ [][StabNext]_vars

LoopSpec == Init /\ [][LoopNext]_vars

PipelineSpec == Init /\ [][PipelineNext]_vars

EstimatorSpec == Init /\ [][EstNext]_vars

HeadTurnSpec == Init /\ [][HeadTurnNext]_vars

====
